---- MODULE Spec2Model ----
(***************************************************************************)
(* Sweep-line decomposition of a rectilinear polygon into rectangles:      *)
(* Geometry (node and edge arenas), ActiveNodes / ActiveEdges (cursor      *)
(* addressed id vectors) and Decomposer::decompose with its phases.        *)
(* Arena ids are the 1-based positions in the arena sequences; cursors are *)
(* 0-based as in the source, so the item at cursor c is items[c + 1].      *)
(***************************************************************************)
EXTENDS Integers, Sequences, FiniteSets, TLC

VARIABLES pc, points, geometry, s, t, active_nodes, active_edges, scanline,
          rects, result, emitted_at, iterations, iter_start,
          split_call, scans, self_scans, scan_log, vec_call

vars == <<pc, points, geometry, s, t, active_nodes, active_edges, scanline,
          rects, result, emitted_at, iterations, iter_start,
          split_call, scans, self_scans, scan_log, vec_call>>

\* ---------------------------------------------------------------- bounds
\* Rectilinear inputs live on the grid 0..MaxX by 0..MaxY and have at most
\* 2 * MaxHalf vertices; arbitrary inputs have at most MaxLen points on the
\* grid 0..ArbMax by 0..ArbMax.
MaxX == 3
MaxY == 2
MaxHalf == 4
MaxLen == 5
ArbMax == 1
MaxInserts == 3
MaxActive == 4

\* ---------------------------------------------------------------- values
\* Option::None for an EdgeId / NodeId slot.
None == 0

Min(a, b) == IF a < b THEN a ELSE b
Max(a, b) == IF a < b THEN b ELSE a

Point(x, y) == [x |-> x, y |-> y]

\* which_side with the two wall kinds exchanged.
which_side_swapped(self, other) ==
  IF self.y < other.y THEN "Right"
  ELSE IF self.y = other.y THEN "None"
  ELSE "Left"

\* Point::which_side: the wall kind of the edge self -> other.
which_side(self, other) ==
  IF self.y < other.y THEN "Left"
  ELSE IF self.y = other.y THEN "None"
  ELSE "Right"

\* Point equality that compares x only.
PointEq_x_only(p, q) == p.x = q.x

\* PartialEq for Point: both coordinates equal.
PointEq(p, q) == p.x = q.x /\ p.y = q.y

\* The Point order with the comparison of y reversed.
PointCmp_reversed(p, q) ==
  IF p.y > q.y THEN "Less"
  ELSE IF p.y < q.y THEN "Greater"
  ELSE IF p.x < q.x THEN "Less"
  ELSE IF p.x > q.x THEN "Greater"
  ELSE "Equal"

\* Ord for Point (partial_cmp): y first, x breaks ties.
PointCmp(p, q) ==
  IF p.y < q.y THEN "Less"
  ELSE IF p.y > q.y THEN "Greater"
  ELSE IF p.x < q.x THEN "Less"
  ELSE IF p.x > q.x THEN "Greater"
  ELSE "Equal"

Rect(left, right) == [left |-> left, right |-> right]

\* ---------------------------------------------------------------- Geometry
EmptyGeometry == [nodes |-> <<>>, edges |-> <<>>, slot_overwritten |-> FALSE]

\* Geometry::new_node: the arena allocates the next id.
new_node(g, point, in_edge, out_edge) ==
  [g EXCEPT !.nodes = Append(@, [id |-> Len(@) + 1, point |-> point,
                                 inc_edge |-> in_edge, out_edge |-> out_edge])]

\* new_edge that registers the edge with its source node only.
new_edge_source_only(g, source, target, ty) ==
  LET id == Len(g.edges) + 1
      e == [id |-> id, source |-> source, target |-> target, side |-> ty]
      g1 == [g EXCEPT !.edges = Append(@, e), !.nodes[source].out_edge = id]
  IN [g |-> g1, edge |-> g1.edges[id]]

\* Geometry::new_edge: allocates the edge, sets it as source's outgoing and
\* target's incoming edge, and returns a copy of the new edge.
\* slot_overwritten records a set_* on an occupied slot (the debug_assert).
new_edge(g, source, target, ty) ==
  LET id == Len(g.edges) + 1
      e == [id |-> id, source |-> source, target |-> target, side |-> ty]
      hit == g.nodes[source].out_edge # None \/ g.nodes[target].inc_edge # None
      g1 == [g EXCEPT !.edges = Append(@, e),
                      !.nodes[source].out_edge = id,
                      !.slot_overwritten = @ \/ hit]
      g2 == [g1 EXCEPT !.nodes[target].inc_edge = id]
  IN [g |-> g2, edge |-> g2.edges[id]]

\* Geometry::initialize_nodes: one node per point, in input order.
RECURSIVE initialize_nodes(_, _, _)
initialize_nodes(g, pts, i) ==
  IF i > Len(pts) THEN g
  ELSE initialize_nodes(new_node(g, pts[i], None, None), pts, i + 1)

\* Edge accessors (resolved through the geometry at the time of the call).
src_x(g, e) == g.nodes[e.source].point.x
src_y(g, e) == g.nodes[e.source].point.y
tgt_y(g, e) == g.nodes[e.target].point.y
min_y(g, e) == Min(src_y(g, e), tgt_y(g, e))
max_y(g, e) == Max(src_y(g, e), tgt_y(g, e))

\* Edge::contains_scanline (non-strict).
contains_scanline(g, e, sl) == min_y(g, e) <= sl /\ sl <= max_y(g, e)

\* Edge::scanline_strictly_inside.
scanline_strictly_inside(g, e, sl) == min_y(g, e) < sl /\ sl < max_y(g, e)

\* split_edge that allocates the node of the split twice.
split_edge_two_nodes(g, input_edge_id, side, sl) ==
  LET input_node_id == IF side = "Left" THEN g.edges[input_edge_id].source
                       ELSE g.edges[input_edge_id].target
      existing_x == g.nodes[input_node_id].point.x
      g0 == new_node(g, Point(existing_x, sl), None, None)
      g1 == new_node(g0, Point(existing_x, sl), None, None)
      new_node_id == Len(g1.nodes)
  IN IF side = "Left"
     THEN LET g2 == [g1 EXCEPT !.edges[input_edge_id].source = new_node_id]
              g3 == [g2 EXCEPT !.nodes[input_node_id].out_edge = None]
              g4 == [g3 EXCEPT !.nodes[new_node_id].out_edge = input_edge_id]
          IN new_edge(g4, input_node_id, new_node_id, side)
     ELSE LET g2 == [g1 EXCEPT !.edges[input_edge_id].target = new_node_id]
              g3 == [g2 EXCEPT !.nodes[input_node_id].inc_edge = None]
              g4 == [g3 EXCEPT !.nodes[new_node_id].inc_edge = input_edge_id]
          IN new_edge(g4, new_node_id, input_node_id, side)

\* split_edge whose new edge carries the tag opposite to side.
split_edge_flipped_tag(g, input_edge_id, side, sl) ==
  LET input_node_id == IF side = "Left" THEN g.edges[input_edge_id].source
                       ELSE g.edges[input_edge_id].target
      existing_x == g.nodes[input_node_id].point.x
      g1 == new_node(g, Point(existing_x, sl), None, None)
      new_node_id == Len(g1.nodes)
  IN IF side = "Left"
     THEN LET g2 == [g1 EXCEPT !.edges[input_edge_id].source = new_node_id]
              g3 == [g2 EXCEPT !.nodes[input_node_id].out_edge = None]
              g4 == [g3 EXCEPT !.nodes[new_node_id].out_edge = input_edge_id]
          IN new_edge(g4, input_node_id, new_node_id, "Right")
     ELSE LET g2 == [g1 EXCEPT !.edges[input_edge_id].target = new_node_id]
              g3 == [g2 EXCEPT !.nodes[input_node_id].inc_edge = None]
              g4 == [g3 EXCEPT !.nodes[new_node_id].inc_edge = input_edge_id]
          IN new_edge(g4, new_node_id, input_node_id, "Left")

\* split_edge that leaves the slot of the replaced endpoint as it was
\* (no take_out_edge, no take_inc_edge).
split_edge_no_take(g, input_edge_id, side, sl) ==
  LET input_node_id == IF side = "Left" THEN g.edges[input_edge_id].source
                       ELSE g.edges[input_edge_id].target
      existing_x == g.nodes[input_node_id].point.x
      g1 == new_node(g, Point(existing_x, sl), None, None)
      new_node_id == Len(g1.nodes)
  IN IF side = "Left"
     THEN LET g2 == [g1 EXCEPT !.edges[input_edge_id].source = new_node_id]
              g4 == [g2 EXCEPT !.nodes[new_node_id].out_edge = input_edge_id]
          IN new_edge(g4, input_node_id, new_node_id, side)
     ELSE LET g2 == [g1 EXCEPT !.edges[input_edge_id].target = new_node_id]
              g4 == [g2 EXCEPT !.nodes[new_node_id].inc_edge = input_edge_id]
          IN new_edge(g4, new_node_id, input_node_id, side)

\* Decomposer::split_edge: splits the edge stored under input_edge_id at
\* scanline sl, replacing the endpoint selected by side (source for Left,
\* target for Right) with a new node, and returns the value of new_edge,
\* that is a copy of the NEWLY allocated edge.
split_edge(g, input_edge_id, side, sl) ==
  LET input_node_id == IF side = "Left" THEN g.edges[input_edge_id].source
                       ELSE g.edges[input_edge_id].target
      existing_x == g.nodes[input_node_id].point.x
      g1 == new_node(g, Point(existing_x, sl), None, None)
      new_node_id == Len(g1.nodes)
  IN IF side = "Left"
     THEN LET g2 == [g1 EXCEPT !.edges[input_edge_id].source = new_node_id]
              g3 == [g2 EXCEPT !.nodes[input_node_id].out_edge = None]
              g4 == [g3 EXCEPT !.nodes[new_node_id].out_edge = input_edge_id]
          IN new_edge(g4, input_node_id, new_node_id, side)
     ELSE LET g2 == [g1 EXCEPT !.edges[input_edge_id].target = new_node_id]
              g3 == [g2 EXCEPT !.nodes[input_node_id].inc_edge = None]
              g4 == [g3 EXCEPT !.nodes[new_node_id].inc_edge = input_edge_id]
          IN new_edge(g4, new_node_id, input_node_id, side)

\* Geometry::split_edge with the new node placed at the y of the replaced
\* endpoint instead of the scanline.
Geometry_split_edge_at_endpoint(g, split_target, sl) ==
  LET side == g.edges[split_target].side
      input_node == IF side = "Left" THEN g.edges[split_target].source
                    ELSE g.edges[split_target].target
  IN split_edge(g, split_target, side, g.nodes[input_node].point.y)

\* Geometry::split_edge returning the edge stored under split_target.
Geometry_split_edge_returns_input(g, split_target, sl) ==
  LET r == split_edge(g, split_target, g.edges[split_target].side, sl)
  IN [g |-> r.g, edge |-> r.g.edges[split_target]]

\* Geometry::split_edge: the wall kind is read from the edge itself; the
\* value returned is the value of new_edge, the NEWLY allocated edge.
Geometry_split_edge(g, split_target, sl) ==
  LET side == g.edges[split_target].side
      input_node == IF side = "Left" THEN g.edges[split_target].source
                    ELSE g.edges[split_target].target
      existing_x == g.nodes[input_node].point.x
      g1 == new_node(g, Point(existing_x, sl), None, None)
      new_node_id == Len(g1.nodes)
  IN IF side = "Left"
     THEN LET g2 == [g1 EXCEPT !.edges[split_target].source = new_node_id]
              g3 == [g2 EXCEPT !.nodes[input_node].out_edge = None]
              g4 == [g3 EXCEPT !.nodes[new_node_id].out_edge = split_target]
          IN new_edge(g4, input_node, new_node_id, side)
     ELSE LET g2 == [g1 EXCEPT !.edges[split_target].target = new_node_id]
              g3 == [g2 EXCEPT !.nodes[input_node].inc_edge = None]
              g4 == [g3 EXCEPT !.nodes[new_node_id].inc_edge = split_target]
          IN new_edge(g4, new_node_id, input_node, side)

\* The length check of the earlier Scanner::new: every input of fewer than
\* 4 points is NotEnoughPoints.
Geometry_new_result_lt4(pts) ==
  IF Len(pts) > 3 THEN "Ok" ELSE "NotEnoughPoints"

\* Geometry::new: the length check; "Ok" means a Geometry is built.
Geometry_new_result(pts) ==
  IF Len(pts) > 3 THEN "Ok"
  ELSE IF Len(pts) = 3 THEN "IsAlreadySimple"
  ELSE "NotEnoughPoints"

\* ---------------------------------------------------------------- ActiveVec
\* ActiveVec::peek_at: items.get(ix).
peek_at(items, ix) == IF ix < Len(items) THEN items[ix + 1] ELSE None

\* Vec::insert(ix, item) with a 0-based index.
InsertAt(items, ix, item) ==
  SubSeq(items, 1, ix) \o <<item>> \o SubSeq(items, ix + 1, Len(items))

\* ActiveNodes::sort: a stable sort of the node ids by the Point order.
RECURSIVE sorted_insert(_, _, _, _)
sorted_insert(g, sorted, id, i) ==
  IF i > Len(sorted) THEN Append(sorted, id)
  ELSE IF PointCmp(g.nodes[sorted[i]].point, g.nodes[id].point) = "Greater"
       THEN InsertAt(sorted, i - 1, id)
       ELSE sorted_insert(g, sorted, id, i + 1)

RECURSIVE sort_from(_, _, _, _)
sort_from(g, ids, sorted, i) ==
  IF i > Len(ids) THEN sorted
  ELSE sort_from(g, ids, sorted_insert(g, sorted, ids[i], 1), i + 1)

\* A sort that leaves the ids in arena order.
sort_arena_order(g, ids) == ids

sort(g, ids) == sort_from(g, ids, <<>>, 1)

\* scanline reading the first node of the sequence instead of the node at
\* the cursor.
ActiveNodes_scanline_first(an, g) ==
  LET id == peek_at(an.nodes, 0)
  IN IF id = None THEN [found |-> FALSE, y |-> 0]
     ELSE [found |-> TRUE, y |-> g.nodes[id].point.y]

\* ActiveNodes::scanline: y of the node at the cursor, found = FALSE for None.
ActiveNodes_scanline(an, g) ==
  LET id == peek_at(an.nodes, an.cursor)
  IN IF id = None THEN [found |-> FALSE, y |-> 0]
     ELSE [found |-> TRUE, y |-> g.nodes[id].point.y]

\* finished() testing the last index instead of the length.
ActiveNodes_finished_last(an) == an.cursor + 1 = Len(an.nodes)

\* ActiveNodes::finished.
ActiveNodes_finished(an) == an.cursor = Len(an.nodes)

\* ActiveVec::finished for ActiveEdges.
ActiveEdges_finished(ae) == Len(ae.edges) = ae.cursor

\* insert placing the edge before the first edge whose source x is greater
\* or equal.
RECURSIVE insert_before_equal(_, _, _)
insert_before_equal(ae, g, id) ==
  LET x == src_x(g, g.edges[id])
      other_id == peek_at(ae.edges, ae.cursor)
  IN IF other_id = None THEN [ae EXCEPT !.edges = Append(@, id)]
     ELSE LET adv == [ae EXCEPT !.cursor = @ + 1]
          IN IF x <= src_x(g, g.edges[other_id])
             THEN [adv EXCEPT !.edges = InsertAt(@, adv.cursor - 1, id)]
             ELSE insert_before_equal(adv, g, id)

\* ActiveEdges::insert: walks forward from the cursor with next() and inserts
\* before the first edge whose source x is greater, else pushes at the end.
RECURSIVE insert(_, _, _)
insert(ae, g, id) ==
  LET x == src_x(g, g.edges[id])
      other_id == peek_at(ae.edges, ae.cursor)
  IN IF other_id = None THEN [ae EXCEPT !.edges = Append(@, id)]
     ELSE LET adv == [ae EXCEPT !.cursor = @ + 1]
          IN IF x < src_x(g, g.edges[other_id])
             THEN [adv EXCEPT !.edges = InsertAt(@, adv.cursor - 1, id)]
             ELSE insert(adv, g, id)

\* ActiveEdges::maybe_insert.
maybe_insert(ae, g, edge_id) == IF edge_id # None THEN insert(ae, g, edge_id) ELSE ae

\* ActiveEdges::insert_edges: incoming first, then outgoing.
insert_edges(ae, g, inc, out) == maybe_insert(maybe_insert(ae, g, inc), g, out)

\* ActiveEdges::retain_if with the purge predicate of purge_active_edges.
RECURSIVE retain_if(_, _, _, _)
retain_if(items, g, sl, i) ==
  IF i > Len(items) THEN <<>>
  ELSE IF contains_scanline(g, g.edges[items[i]], sl)
       THEN <<items[i]>> \o retain_if(items, g, sl, i + 1)
       ELSE retain_if(items, g, sl, i + 1)

\* ---------------------------------------------------------------- Decomposer
\* Decomposer::purge_active_edges: the cursor is left as it was.
purge_active_edges(ae, g, sl) == [ae EXCEPT !.edges = retain_if(@, g, sl, 1)]

\* The next_if predicate accepting every node at or above the scanline.
on_scanline_or_above(g, id, sl) == g.nodes[id].point.y >= sl

\* The predicate add_active_edges gives to next_if: the node lies on the
\* scanline.
on_scanline(g, id, sl) == g.nodes[id].point.y = sl

\* Decomposer::add_active_edges after its reset_cursor: consumes the nodes
\* on the scanline with next_if and inserts their edges.
RECURSIVE add_loop(_, _, _, _)
add_loop(an, ae, g, sl) ==
  LET id == peek_at(an.nodes, an.cursor)
  IN IF id # None /\ on_scanline(g, id, sl)
     THEN add_loop([an EXCEPT !.cursor = @ + 1],
                   insert_edges(ae, g, g.nodes[id].inc_edge, g.nodes[id].out_edge),
                   g, sl)
     ELSE [active_nodes |-> an, active_edges |-> ae]

\* add_active_edges without the reset of the active-edges cursor.
add_active_edges_no_reset(an, ae, g, sl) == add_loop(an, ae, g, sl)

add_active_edges(an, ae, g, sl) == add_loop(an, [ae EXCEPT !.cursor = 0], g, sl)

NoEdge == [id |-> None, source |-> None, target |-> None, side |-> "None"]

\* Decomposer::scan_for_edge_on_side: an EdgeScanResult (found = FALSE for
\* None) together with the advanced active edges.
RECURSIVE scan_for_edge_on_side(_, _, _, _)
scan_for_edge_on_side(ae, g, side, sl) ==
  LET id == peek_at(ae.edges, ae.cursor)
  IN IF id = None
     THEN [found |-> FALSE, active_edges |-> ae, cursor |-> 0, edge |-> NoEdge]
     ELSE LET edge == g.edges[id]
              adv == [ae EXCEPT !.cursor = @ + 1]
              fetch_y == IF side = "Left" THEN src_y(g, edge) ELSE tgt_y(g, edge)
          IN IF edge.side = side /\ fetch_y # sl
             THEN [found |-> TRUE, active_edges |-> adv, cursor |-> adv.cursor,
                   edge |-> edge]
             ELSE scan_for_edge_on_side(adv, g, side, sl)

\* The split-and-emit part of one iteration of the loop of scan_edges
\* (decomposer.rs 326-383): left and right are edge copies.
split_and_emit(g, left, right, sl) ==
  LET lsplit == scanline_strictly_inside(g, left, sl)
      lres == split_edge(g, left.id, "Left", sl)
      \* geometry[left.edge.id] = new_edge
      g1 == IF lsplit THEN [lres.g EXCEPT !.edges[left.id] = lres.edge] ELSE g
      left1 == IF lsplit THEN lres.edge ELSE left
      rsplit == scanline_strictly_inside(g1, right, sl)
      rres == split_edge(g1, right.id, "Right", sl)
      g2 == IF rsplit THEN [rres.g EXCEPT !.edges[right.id] = rres.edge] ELSE g1
      right1 == IF rsplit THEN rres.edge ELSE right
  IN [geometry |-> g2,
      rect |-> Rect(g2.nodes[left1.source].point, g2.nodes[right1.source].point)]

\* One iteration of the while loop of Decomposer::scan_edges, entered with
\* the active edges not finished.  exit is "return" (return rects),
\* "continue" (no rectangle) or "rect" (a rectangle was pushed).
scan_edges_iter(g, ae, sl) ==
  LET l == scan_for_edge_on_side(ae, g, "Left", sl)
      r == scan_for_edge_on_side(l.active_edges, g, "Right", sl)
      none == [geometry |-> g, rect |-> Rect(Point(0, 0), Point(0, 0))]
  IN IF ~l.found
     THEN [exit |-> "return", active_edges |-> l.active_edges] @@ none
     ELSE IF ~r.found
     THEN [exit |-> "return", active_edges |-> r.active_edges] @@ none
     ELSE IF scanline_strictly_inside(g, l.edge, sl)
             /\ scanline_strictly_inside(g, r.edge, sl)
     THEN LET lc == l.cursor + 1
              id == peek_at(r.active_edges.edges, lc)
          IN IF lc = r.cursor \/ id = None
             THEN [exit |-> "continue", active_edges |-> r.active_edges] @@ none
             ELSE [exit |-> "rect", active_edges |-> r.active_edges]
                  @@ split_and_emit(g, g.edges[id], r.edge, sl)
     ELSE [exit |-> "rect", active_edges |-> r.active_edges]
          @@ split_and_emit(g, l.edge, r.edge, sl)

\* ---------------------------------------------------------------- EdgeScans
\* EdgeScans::default(): all four fields None.  A cursor recorded by the
\* scan is at least 1, so None (0) is never a recorded cursor.
EdgeScans_default == [le |-> NoEdge, re |-> NoEdge, lc |-> None, rc |-> None]

\* The first loop of scan_for_edges matching Right edges.
RECURSIVE scan_left_wrong_side(_, _, _, _)
scan_left_wrong_side(es, ae, g, sl) ==
  LET id == peek_at(ae.edges, ae.cursor)
  IN IF id = None THEN [self |-> es, active_edges |-> ae]
     ELSE LET edge == g.edges[id]
              adv == [ae EXCEPT !.cursor = @ + 1]
              es1 == [es EXCEPT !.le = edge]
          IN IF edge.side = "Right" /\ src_y(g, edge) # sl
             THEN [self |-> [es1 EXCEPT !.lc = adv.cursor], active_edges |-> adv]
             ELSE scan_left_wrong_side(es1, adv, g, sl)

\* scan_for_edges, first loop: every edge drawn with next() replaces le; the
\* loop breaks on a Left edge whose source y differs from the scanline and
\* records the cursor (already past that edge) as lc.
RECURSIVE scan_left(_, _, _, _)
scan_left(es, ae, g, sl) ==
  LET id == peek_at(ae.edges, ae.cursor)
  IN IF id = None THEN [self |-> es, active_edges |-> ae]
     ELSE LET edge == g.edges[id]
              adv == [ae EXCEPT !.cursor = @ + 1]
              es1 == [es EXCEPT !.le = edge]
          IN IF edge.side = "Left" /\ src_y(g, edge) # sl
             THEN [self |-> [es1 EXCEPT !.lc = adv.cursor], active_edges |-> adv]
             ELSE scan_left(es1, adv, g, sl)

\* scan_for_edges, second loop: the same for re and rc, on a Right edge
\* whose target y differs from the scanline.
RECURSIVE scan_right(_, _, _, _)
scan_right(es, ae, g, sl) ==
  LET id == peek_at(ae.edges, ae.cursor)
  IN IF id = None THEN [self |-> es, active_edges |-> ae]
     ELSE LET edge == g.edges[id]
              adv == [ae EXCEPT !.cursor = @ + 1]
              es1 == [es EXCEPT !.re = edge]
          IN IF edge.side = "Right" /\ tgt_y(g, edge) # sl
             THEN [self |-> [es1 EXCEPT !.rc = adv.cursor], active_edges |-> adv]
             ELSE scan_right(es1, adv, g, sl)

\* scan_for_edges handing back the active edges with the cursor where it
\* was at the call.
scan_for_edges_cursor_kept(es, ae, sl, g) ==
  LET l == scan_left(es, ae, g, sl)
      r == scan_right(l.self, l.active_edges, g, sl)
  IN IF ActiveEdges_finished(l.active_edges)
     THEN [out |-> "ReturnRects", self |-> l.self, active_edges |-> ae]
     ELSE [out |-> "ContinueSplit", self |-> r.self, active_edges |-> ae]

\* EdgeScans::scan_for_edges.
scan_for_edges(es, ae, sl, g) ==
  LET l == scan_left(es, ae, g, sl)
      r == scan_right(l.self, l.active_edges, g, sl)
  IN IF ActiveEdges_finished(l.active_edges)
     THEN [out |-> "ReturnRects", self |-> l.self, active_edges |-> l.active_edges]
     ELSE [out |-> "ContinueSplit", self |-> r.self, active_edges |-> r.active_edges]

\* check_both_splittable comparing the left cursor as recorded, without the
\* increment.
check_both_splittable_no_increment(es, g, ae, sl) ==
  IF scanline_strictly_inside(g, es.le, sl) /\ scanline_strictly_inside(g, es.re, sl)
  THEN LET id == IF es.lc = None THEN None ELSE peek_at(ae.edges, es.lc)
       IN IF es.lc = es.rc THEN [out |-> "ContinueLoop", self |-> es]
          ELSE IF id # None
          THEN [out |-> "ContinueSplit", self |-> [es EXCEPT !.le = g.edges[id]]]
          ELSE [out |-> "ContinueSplit", self |-> es]
  ELSE [out |-> "ContinueSplit", self |-> es]

\* EdgeScans::check_both_splittable.
check_both_splittable(es, g, ae, sl) ==
  IF scanline_strictly_inside(g, es.le, sl) /\ scanline_strictly_inside(g, es.re, sl)
  THEN LET es1 == [es EXCEPT !.lc = IF @ = None THEN None ELSE @ + 1]
           id == IF es1.lc = None THEN None ELSE peek_at(ae.edges, es1.lc)
       IN IF es1.lc = es1.rc THEN [out |-> "ContinueLoop", self |-> es1]
          ELSE IF id # None
          THEN [out |-> "ContinueSplit", self |-> [es1 EXCEPT !.le = g.edges[id]]]
          ELSE [out |-> "ContinueSplit", self |-> es1]
  ELSE [out |-> "ContinueSplit", self |-> es]

\* The third phase with the corners of the rectangle exchanged.
split_and_rect_swapped(es, g, sl) ==
  IF scanline_strictly_inside(g, es.le, sl)
  THEN LET r == Geometry_split_edge(g, es.le.id, sl)
       IN [g |-> r.g, self |-> [es EXCEPT !.le = r.edge],
           rect |-> Rect(r.g.nodes[es.re.source].point,
                         r.g.nodes[r.edge.source].point)]
  ELSE IF scanline_strictly_inside(g, es.re, sl)
  THEN LET r == Geometry_split_edge(g, es.re.id, sl)
       IN [g |-> r.g, self |-> [es EXCEPT !.re = r.edge],
           rect |-> Rect(r.g.nodes[r.edge.source].point,
                         r.g.nodes[es.le.source].point)]
  ELSE [g |-> g, self |-> es,
        rect |-> Rect(g.nodes[es.re.source].point, g.nodes[es.le.source].point)]

\* EdgeScans::scan_and_split, third phase (edge_scans.rs 219-246): the left
\* candidate is split if it strictly contains the scanline, ELSE the right
\* one if it does; then the rectangle of the two source points.
split_and_rect(es, g, sl) ==
  IF scanline_strictly_inside(g, es.le, sl)
  THEN LET r == Geometry_split_edge(g, es.le.id, sl)
       IN [g |-> r.g, self |-> [es EXCEPT !.le = r.edge],
           rect |-> Rect(r.g.nodes[r.edge.source].point,
                         r.g.nodes[es.re.source].point)]
  ELSE IF scanline_strictly_inside(g, es.re, sl)
  THEN LET r == Geometry_split_edge(g, es.re.id, sl)
       IN [g |-> r.g, self |-> [es EXCEPT !.re = r.edge],
           rect |-> Rect(r.g.nodes[es.le.source].point,
                         r.g.nodes[r.edge.source].point)]
  ELSE [g |-> g, self |-> es,
        rect |-> Rect(g.nodes[es.le.source].point, g.nodes[es.re.source].point)]

\* ---------------------------------------------------------------- decompose
\* The frame of one call of Decomposer::decompose as a record.
Frame == [pc |-> pc, points |-> points, geometry |-> geometry, s |-> s, t |-> t,
          active_nodes |-> active_nodes, active_edges |-> active_edges,
          scanline |-> scanline, rects |-> rects, result |-> result,
          emitted_at |-> emitted_at, iterations |-> iterations,
          iter_start |-> iter_start]

InitFrame(pts) ==
  [pc |-> "start", points |-> pts, geometry |-> EmptyGeometry, s |-> 0, t |-> 0,
   active_nodes |-> [nodes |-> <<>>, cursor |-> 0],
   active_edges |-> [edges |-> <<>>, cursor |-> 0],
   scanline |-> 0, rects |-> <<>>, result |-> "pending",
   emitted_at |-> <<>>, iterations |-> 0, iter_start |-> 0]

\* An error conversion that loses the kind of the error.
propagate_lossy(err) == "NotEnoughPoints"

\* The ? operator of decompose: the error of Geometry::new is returned as is.
propagate(err) == err

\* decompose, first line: Geometry::new(points)?, up to the start of the walk
\* of initialize_nodes_and_edges.
decompose_start(d) ==
  LET res == Geometry_new_result(d.points)
  IN IF res = "Ok"
     THEN [d EXCEPT !.geometry = initialize_nodes(EmptyGeometry, d.points, 1),
                    !.s = 0, !.t = 1, !.pc = "walk"]
     ELSE [d EXCEPT !.result = propagate(res), !.pc = "done"]

\* The walk without the wrap-around pair (last, first): it stops when the
\* target index returns to 0.
walk_step_no_wrap(d) ==
  LET g == d.geometry
      source == d.s + 1
      target == d.t + 1
      side == which_side(g.nodes[source].point, g.nodes[target].point)
  IN IF g.nodes[source].out_edge # None \/ d.t = 0
     THEN [d EXCEPT !.pc = "new"]
     ELSE [d EXCEPT !.geometry = IF side # "None"
                                 THEN new_edge(g, source, target, side).g
                                 ELSE g,
                    !.s = d.t, !.t = (d.t + 1) % Len(d.points)]

\* The walk that also stops at the first pair without a side (equal y).
walk_step_break_on_equal_y(d) ==
  LET g == d.geometry
      source == d.s + 1
      target == d.t + 1
      side == which_side(g.nodes[source].point, g.nodes[target].point)
  IN IF g.nodes[source].out_edge # None \/ side = "None"
     THEN [d EXCEPT !.pc = "new"]
     ELSE [d EXCEPT !.geometry = new_edge(g, source, target, side).g,
                    !.s = d.t, !.t = (d.t + 1) % Len(d.points)]

\* One iteration of the loop of Geometry::initialize_nodes_and_edges.
\* node_ids[i] is the id of the i-th allocated node.
walk_step(d) ==
  LET g == d.geometry
      source == d.s + 1
      target == d.t + 1
      side == which_side(g.nodes[source].point, g.nodes[target].point)
  IN IF g.nodes[source].out_edge # None
     THEN [d EXCEPT !.pc = "new"]
     ELSE [d EXCEPT !.geometry = IF side # "None"
                                 THEN new_edge(g, source, target, side).g
                                 ELSE g,
                    !.s = d.t, !.t = (d.t + 1) % Len(d.points)]

\* Decomposer::new: all node ids in arena order, sorted; empty active edges.
Decomposer_new(d) ==
  [d EXCEPT !.active_nodes =
               [nodes |-> sort(d.geometry, [i \in 1..Len(d.geometry.nodes) |-> i]),
                cursor |-> 0],
            !.active_edges = [edges |-> <<>>, cursor |-> 0],
            !.scanline = 0, !.rects = <<>>, !.pc = "update"]

\* Decomposer::update_scanline: unwrap() of ActiveNodes::scanline.
update_scanline(d) ==
  LET sl == ActiveNodes_scanline(d.active_nodes, d.geometry)
  IN IF sl.found
     THEN [d EXCEPT !.scanline = sl.y, !.pc = "purge",
                    !.iterations = @ + 1, !.iter_start = d.active_nodes.cursor]
     ELSE [d EXCEPT !.result = "panic", !.pc = "done"]

purge_step(d) ==
  [d EXCEPT !.active_edges = purge_active_edges(@, d.geometry, d.scanline),
            !.pc = "add"]

add_step(d) ==
  LET r == add_active_edges(d.active_nodes, d.active_edges, d.geometry, d.scanline)
  IN [d EXCEPT !.active_nodes = r.active_nodes, !.active_edges = r.active_edges,
               !.pc = "scan_enter"]

\* Decomposer::scan_edges, entry: reset_cursor.
scan_enter(d) == [d EXCEPT !.active_edges.cursor = 0, !.pc = "scan"]

\* Decomposer::scan_edges: the loop test and one iteration of the loop.
scan_step(d) ==
  IF ActiveEdges_finished(d.active_edges) THEN [d EXCEPT !.pc = "check"]
  ELSE LET r == scan_edges_iter(d.geometry, d.active_edges, d.scanline)
       IN IF r.exit = "return"
          THEN [d EXCEPT !.active_edges = r.active_edges, !.pc = "check"]
          ELSE IF r.exit = "continue"
          THEN [d EXCEPT !.active_edges = r.active_edges]
          ELSE [d EXCEPT !.active_edges = r.active_edges,
                         !.geometry = r.geometry,
                         !.rects = Append(@, r.rect),
                         !.emitted_at = Append(@, d.scanline)]

\* A main loop that goes round again without testing finished().
loop_check_no_test(d) == [d EXCEPT !.pc = "update"]

\* decompose: the test at the end of a main-loop iteration.
loop_check(d) ==
  IF ActiveNodes_finished(d.active_nodes)
  THEN [d EXCEPT !.result = "Ok", !.pc = "done"]
  ELSE [d EXCEPT !.pc = "update"]

Step(d) ==
  CASE d.pc = "start" -> decompose_start(d)
    [] d.pc = "walk" -> walk_step(d)
    [] d.pc = "new" -> Decomposer_new(d)
    [] d.pc = "update" -> update_scanline(d)
    [] d.pc = "purge" -> purge_step(d)
    [] d.pc = "add" -> add_step(d)
    [] d.pc = "scan_enter" -> scan_enter(d)
    [] d.pc = "scan" -> scan_step(d)
    [] d.pc = "check" -> loop_check(d)
    [] OTHER -> d

\* decompose run to its end on an input whose walk ends.
RECURSIVE Run(_)
Run(d) == IF d.pc = "done" THEN d ELSE Run(Step(d))

\* ---------------------------------------------------------------- inputs
CycNext(j, k) == (j % k) + 1

XChoices(k) == { xs \in [1..k -> 0..MaxX] : \A j \in 1..k : xs[j] # xs[CycNext(j, k)] }
YChoices(k) == { ys \in [1..k -> 0..MaxY] : \A j \in 1..k : ys[j] # ys[CycNext(j, k)] }

\* The closed rectilinear path through k vertical and k horizontal edges,
\* starting with a vertical (VStart) or a horizontal (HStart) edge.
VStart(xs, ys, k) ==
  [i \in 1..(2 * k) |->
     LET j == (i + 1) \div 2
     IN IF i % 2 = 1 THEN Point(xs[j], ys[j]) ELSE Point(xs[j], ys[CycNext(j, k)])]
HStart(xs, ys, k) ==
  [i \in 1..(2 * k) |->
     LET j == (i + 1) \div 2
     IN IF i % 2 = 1 THEN Point(xs[j], ys[j]) ELSE Point(xs[CycNext(j, k)], ys[j])]

\* Closed axis-aligned segments a1-a2 and b1-b2 have a common point.
SegsMeet(a1, a2, b1, b2) ==
  /\ Min(a1.x, a2.x) <= Max(b1.x, b2.x) /\ Min(b1.x, b2.x) <= Max(a1.x, a2.x)
  /\ Min(a1.y, a2.y) <= Max(b1.y, b2.y) /\ Min(b1.y, b2.y) <= Max(a1.y, a2.y)

\* p is a rectilinear closed path: every side is axis-aligned with non-zero
\* length and horizontal and vertical sides alternate.
IsRectilinear(p) ==
  LET n == Len(p)
      Vert(i) == p[i].x = p[CycNext(i, n)].x /\ p[i].y # p[CycNext(i, n)].y
      Horz(i) == p[i].y = p[CycNext(i, n)].y /\ p[i].x # p[CycNext(i, n)].x
  IN /\ n > 3
     /\ \A i \in 1..n : (Vert(i) /\ Horz(CycNext(i, n))) \/ (Horz(i) /\ Vert(CycNext(i, n)))

\* No two non-adjacent sides of p touch.
IsSimple(p) ==
  LET n == Len(p)
  IN \A i, j \in 1..n :
       (i < j /\ j # i + 1 /\ ~(i = 1 /\ j = n))
       => ~SegsMeet(p[i], p[CycNext(i, n)], p[j], p[CycNext(j, n)])

RECURSIVE Shoelace(_, _)
Shoelace(p, i) ==
  IF i > Len(p) THEN 0
  ELSE LET q == p[CycNext(i, Len(p))]
       IN p[i].x * q.y - q.x * p[i].y + Shoelace(p, i + 1)

\* Twice the signed area is negative: p runs clockwise with y pointing up,
\* the order main.rs labels CW.
IsClockwise(p) == Shoelace(p, 1) < 0

IsPolygon(p) == IsRectilinear(p) /\ IsSimple(p) /\ IsClockwise(p)

RectilinearInputs ==
  UNION { UNION { { VStart(xs, ys, k), HStart(xs, ys, k) } :
                    <<xs, ys>> \in XChoices(k) \X YChoices(k) } : k \in 2..MaxHalf }

SimpleInputs == { p \in RectilinearInputs : IsRectilinear(p) /\ IsSimple(p) }

ArbPoints == { Point(x, y) : x \in 0..ArbMax, y \in 0..ArbMax }
ArbitraryInputs == UNION { [1..n -> ArbPoints] : n \in 0..MaxLen }

Inputs == SimpleInputs \cup ArbitraryInputs

\* ---------------------------------------------------------------- behaviour
\* No call of split_edge has been made yet.
NoSplit == [edge_id |-> None, scanline |-> 0, before |-> EmptyGeometry,
            returned |-> NoEdge]

\* What the latest call of scan_and_split did: its result, the cursor, the
\* number of rectangles at its entry, and the cursor, the EdgeScans value and
\* the arena sizes at the entry of its latest phase.
NoLog == [out |-> "none", c0 |-> 0, n_rects |-> 0, cursor |-> 0,
          before |-> EdgeScans_default, n_nodes |-> 0, n_edges |-> 0]

\* vec_call: the latest call of an ActiveVec method made by a caller of the
\* Decomposer: the method, the scanline its predicate tests or the index it
\* reads, the ActiveNodes before the call and the value returned.
NoCall == [op |-> "none", arg |-> 0,
           before |-> [nodes |-> <<>>, cursor |-> 0], returned |-> None]

Init ==
  /\ points \in Inputs
  /\ pc = "start"
  /\ geometry = EmptyGeometry
  /\ s = 0 /\ t = 0
  /\ active_nodes = [nodes |-> <<>>, cursor |-> 0]
  /\ active_edges = [edges |-> <<>>, cursor |-> 0]
  /\ scanline = 0
  /\ rects = <<>>
  /\ result = "pending"
  /\ emitted_at = <<>>
  /\ iterations = 0
  /\ iter_start = 0
  /\ split_call = NoSplit
  /\ scans = EdgeScans_default
  /\ self_scans = EdgeScans_default
  /\ scan_log = NoLog
  /\ vec_call = NoCall

Load(d) ==
  /\ pc' = d.pc /\ points' = d.points /\ geometry' = d.geometry
  /\ s' = d.s /\ t' = d.t
  /\ active_nodes' = d.active_nodes /\ active_edges' = d.active_edges
  /\ scanline' = d.scanline /\ rects' = d.rects /\ result' = d.result
  /\ emitted_at' = d.emitted_at /\ iterations' = d.iterations
  /\ iter_start' = d.iter_start
  /\ UNCHANGED <<split_call, scans, self_scans, scan_log, vec_call>>

DecomposeStart == pc = "start" /\ Load(decompose_start(Frame))
WalkStep == pc = "walk" /\ Load(walk_step(Frame))
DecomposerNew == pc = "new" /\ Load(Decomposer_new(Frame))
UpdateScanline == pc = "update" /\ Load(update_scanline(Frame))
PurgeActiveEdges == pc = "purge" /\ Load(purge_step(Frame))
AddActiveEdges == pc = "add" /\ Load(add_step(Frame))
ScanEdgesEnter == pc = "scan_enter" /\ Load(scan_enter(Frame))
ScanEdgesStep == pc = "scan" /\ Load(scan_step(Frame))
LoopCheck == pc = "check" /\ Load(loop_check(Frame))

Next ==
  \/ DecomposeStart
  \/ WalkStep
  \/ DecomposerNew
  \/ UpdateScanline
  \/ PurgeActiveEdges
  \/ AddActiveEdges
  \/ ScanEdgesEnter
  \/ ScanEdgesStep
  \/ LoopCheck

Spec == Init /\ [][Next]_vars

\* ActiveVec::next on ActiveNodes: when a node is stored at the cursor the
\* cursor moves past it, otherwise nothing changes.
next(an) ==
  IF peek_at(an.nodes, an.cursor) # None
  THEN [an EXCEPT !.cursor = @ + 1]
  ELSE an

\* A caller of the Decomposer draws nodes with next before it asks for the
\* scanline.
ActiveNodesNext ==
  /\ pc = "update"
  /\ active_nodes' = next(active_nodes)
  /\ UNCHANGED <<pc, points, geometry, s, t, active_edges, scanline, rects,
                 result, emitted_at, iterations, iter_start,
                 split_call, scans, self_scans, scan_log, vec_call>>

\* Decomposer::update_scanline on every Decomposer that Decomposer::new
\* builds, with the ActiveNodes cursor anywhere from 0 to the length.
NextUpdate ==
  \/ DecomposeStart
  \/ WalkStep
  \/ DecomposerNew
  \/ ActiveNodesNext
  \/ UpdateScanline

SpecUpdate == Init /\ [][NextUpdate]_vars

\* ActiveVec::peek: the item at the cursor, the sequence and the cursor are
\* read only (&self).
peek(an) == peek_at(an.nodes, an.cursor)

\* next_if that advances past every item it finds, accepted or not.
next_if_always_advances(an, g, sl) ==
  LET id == peek(an)
      res == IF id # None /\ on_scanline(g, id, sl) THEN id ELSE None
  IN [returned |-> res,
      active_nodes |-> IF id # None THEN [an EXCEPT !.cursor = @ + 1] ELSE an]

\* ActiveVec::next_if on ActiveNodes with the closure add_active_edges
\* passes (the node lies on sl): peek().and_then(f), and the cursor is
\* incremented when the result is Some.
next_if(an, g, sl) ==
  LET id == peek(an)
      res == IF id # None /\ on_scanline(g, id, sl) THEN id ELSE None
  IN [returned |-> res,
      active_nodes |-> IF res # None THEN [an EXCEPT !.cursor = @ + 1] ELSE an]

\* A caller of the Decomposer calls next_if with a predicate that tests the
\* nodes against any y.
CallNextIf ==
  /\ pc = "update"
  /\ \E sl \in 0..MaxY :
       LET r == next_if(active_nodes, geometry, sl)
       IN /\ active_nodes' = r.active_nodes
          /\ vec_call' = [op |-> "next_if", arg |-> sl,
                          before |-> active_nodes, returned |-> r.returned]
  /\ UNCHANGED <<pc, points, geometry, s, t, active_edges, scanline, rects,
                 result, emitted_at, iterations, iter_start,
                 split_call, scans, self_scans, scan_log>>

\* A caller reads the item at the cursor.
CallPeek ==
  /\ pc = "update"
  /\ vec_call' = [op |-> "peek", arg |-> active_nodes.cursor,
                  before |-> active_nodes, returned |-> peek(active_nodes)]
  /\ UNCHANGED <<pc, points, geometry, s, t, active_nodes, active_edges,
                 scanline, rects, result, emitted_at, iterations, iter_start,
                 split_call, scans, self_scans, scan_log>>

\* A caller reads the item at any index, one past the end included.
CallPeekAt ==
  /\ pc = "update"
  /\ \E ix \in 0..Len(active_nodes.nodes) :
       vec_call' = [op |-> "peek_at", arg |-> ix, before |-> active_nodes,
                    returned |-> peek_at(active_nodes.nodes, ix)]
  /\ UNCHANGED <<pc, points, geometry, s, t, active_nodes, active_edges,
                 scanline, rects, result, emitted_at, iterations, iter_start,
                 split_call, scans, self_scans, scan_log>>

InitVec == Init /\ Len(points) <= 4

NextVec ==
  \/ DecomposeStart
  \/ WalkStep
  \/ DecomposerNew
  \/ CallNextIf
  \/ CallPeek
  \/ CallPeekAt

SpecVec == InitVec /\ [][NextVec]_vars

\* ActiveEdges::insert called by a caller that holds the Geometry built by
\* Geometry::new and an ActiveEdges that starts empty: any edge of the
\* geometry, in any order, the cursor left wherever insert left it.
ActiveEdgesInsert ==
  /\ pc = "new"
  /\ Len(active_edges.edges) < MaxInserts
  /\ \E id \in 1..Len(geometry.edges) :
       active_edges' = insert(active_edges, geometry, id)
  /\ UNCHANGED <<pc, points, geometry, s, t, active_nodes, scanline, rects,
                 result, emitted_at, iterations, iter_start,
                 split_call, scans, self_scans, scan_log, vec_call>>

InitInsert ==
  /\ Init
  /\ \/ points \in SimpleInputs /\ Len(points) <= 6
     \/ points \in ArbitraryInputs /\ Len(points) = 4

NextInsert ==
  \/ DecomposeStart
  \/ WalkStep
  \/ ActiveEdgesInsert

SpecInsert == InitInsert /\ [][NextInsert]_vars

\* Geometry::split_edge called by a holder of the Geometry built by
\* Geometry::new, on any edge that strictly contains the chosen scanline;
\* split_call keeps the arguments, the geometry before and the value
\* returned.
GeometrySplit ==
  /\ pc = "new"
  /\ \E e \in 1..Len(geometry.edges) : \E sl \in 0..MaxY :
       /\ scanline_strictly_inside(geometry, geometry.edges[e], sl)
       /\ LET r == Geometry_split_edge(geometry, e, sl)
          IN /\ geometry' = r.g
             /\ split_call' = [edge_id |-> e, scanline |-> sl,
                               before |-> geometry, returned |-> r.edge]
  /\ UNCHANGED <<pc, points, s, t, active_nodes, active_edges, scanline, rects,
                 result, emitted_at, iterations, iter_start, scans, self_scans,
                 scan_log, vec_call>>

InitSplit == Init /\ Len(points) <= 6

NextSplit ==
  \/ DecomposeStart
  \/ WalkStep
  \/ GeometrySplit

SpecSplit == InitSplit /\ [][NextSplit]_vars

\* The loop of the Decomposer around EdgeScans::scan_and_split: after the
\* reset of the active-edges cursor it calls scan_and_split again and again,
\* feeds a ContinueLoop state back into the next call, collects the
\* rectangle of a NewRect and leaves on ReturnRects.
scan_loop_pc(out) == IF out = "ReturnRects" THEN "check" ELSE "sfe"
scan_loop_scans(out, fed, returned) == IF out = "ContinueLoop" THEN returned ELSE fed

ScanAndSplitEnter ==
  /\ pc = "scan_enter"
  /\ active_edges' = [active_edges EXCEPT !.cursor = 0]
  /\ scans' = EdgeScans_default
  /\ pc' = "sfe"
  /\ UNCHANGED <<points, geometry, s, t, active_nodes, scanline, rects, result,
                 emitted_at, iterations, iter_start, split_call, self_scans,
                 scan_log, vec_call>>

\* scan_and_split, entry and first phase: self is the value the caller
\* passes; ReturnRects ends the call.
ScanForEdges ==
  /\ pc = "sfe"
  /\ LET r == scan_for_edges(scans, active_edges, scanline, geometry)
     IN /\ active_edges' = r.active_edges
        /\ self_scans' = r.self
        /\ scan_log' = [out |-> r.out, c0 |-> active_edges.cursor,
                        n_rects |-> Len(rects), cursor |-> active_edges.cursor,
                        before |-> scans, n_nodes |-> Len(geometry.nodes),
                        n_edges |-> Len(geometry.edges)]
        /\ pc' = IF r.out = "ReturnRects" THEN scan_loop_pc(r.out) ELSE "cbs"
  /\ UNCHANGED <<points, geometry, s, t, active_nodes, scanline, rects, result,
                 emitted_at, iterations, iter_start, split_call, scans, vec_call>>

\* scan_and_split, second phase: ContinueLoop ends the call.
CheckBothSplittable ==
  /\ pc = "cbs"
  /\ LET r == check_both_splittable(self_scans, geometry, active_edges, scanline)
     IN /\ self_scans' = r.self
        /\ scan_log' = [scan_log EXCEPT !.out = r.out,
                                        !.cursor = active_edges.cursor,
                                        !.before = self_scans]
        /\ scans' = scan_loop_scans(r.out, scans, r.self)
        /\ pc' = IF r.out = "ContinueLoop" THEN scan_loop_pc(r.out) ELSE "split"
  /\ UNCHANGED <<points, geometry, s, t, active_nodes, active_edges, scanline,
                 rects, result, emitted_at, iterations, iter_start, split_call, vec_call>>

\* scan_and_split, third phase: the split and NewRect; the caller pushes the
\* rectangle.
SplitAndEmit ==
  /\ pc = "split"
  /\ LET r == split_and_rect(self_scans, geometry, scanline)
     IN /\ geometry' = r.g
        /\ self_scans' = r.self
        /\ rects' = Append(rects, r.rect)
        /\ emitted_at' = Append(emitted_at, scanline)
        /\ scan_log' = [scan_log EXCEPT !.out = "NewRect",
                                        !.cursor = active_edges.cursor,
                                        !.before = self_scans,
                                        !.n_nodes = Len(geometry.nodes),
                                        !.n_edges = Len(geometry.edges)]
        /\ scans' = scan_loop_scans("NewRect", scans, r.self)
        /\ pc' = scan_loop_pc("NewRect")
  /\ UNCHANGED <<points, s, t, active_nodes, active_edges, scanline, result,
                 iterations, iter_start, split_call, vec_call>>

\* decompose with the scan of each scanline done by EdgeScans.
NextScans ==
  \/ DecomposeStart
  \/ WalkStep
  \/ DecomposerNew
  \/ UpdateScanline
  \/ PurgeActiveEdges
  \/ AddActiveEdges
  \/ ScanAndSplitEnter
  \/ ScanForEdges
  \/ CheckBothSplittable
  \/ SplitAndEmit
  \/ LoopCheck

SpecScans == Init /\ [][NextScans]_vars

\* EdgeScans::scan_and_split called by a holder of a Geometry built by
\* Geometry::new and of an ActiveEdges it has filled itself: each edge is
\* inserted after a reset of the cursor (an edge may be inserted again, as
\* add_active_edges does), then a scanline that every active edge contains
\* is chosen and the calls of scan_and_split run as in the loop above.
CallerInsert ==
  /\ pc = "new"
  /\ Len(active_edges.edges) < MaxActive
  /\ \E id \in 1..Len(geometry.edges) :
       active_edges' = insert([active_edges EXCEPT !.cursor = 0], geometry, id)
  /\ UNCHANGED <<pc, points, geometry, s, t, active_nodes, scanline, rects,
                 result, emitted_at, iterations, iter_start,
                 split_call, scans, self_scans, scan_log, vec_call>>

CallerScan ==
  /\ pc = "new"
  /\ active_edges.edges # <<>>
  /\ \E sl \in 0..MaxY :
       /\ \A i \in 1..Len(active_edges.edges) :
            contains_scanline(geometry, geometry.edges[active_edges.edges[i]], sl)
       /\ scanline' = sl
  /\ active_edges' = [active_edges EXCEPT !.cursor = 0]
  /\ scans' = EdgeScans_default
  /\ pc' = "sfe"
  /\ UNCHANGED <<points, geometry, s, t, active_nodes, rects, result,
                 emitted_at, iterations, iter_start, split_call, self_scans,
                 scan_log, vec_call>>

InitCalls ==
  /\ Init
  /\ Len(points) = 4 \/ (Len(points) = 6 /\ points \in SimpleInputs)

NextCalls ==
  \/ DecomposeStart
  \/ WalkStep
  \/ CallerInsert
  \/ CallerScan
  \/ ScanForEdges
  \/ CheckBothSplittable
  \/ SplitAndEmit

SpecCalls == InitCalls /\ [][NextCalls]_vars

\* The call runs on its own thread of control: a step that can be taken is
\* taken.
FairSpec == Spec /\ WF_vars(Next)

\* ---------------------------------------------------------------- geometry of the result
\* The unit cell (i, j) is the square [i, i+1] x [j, j+1].
Cells == (0..MaxX) \X (0..MaxY)

\* Even-odd rule: the cell lies inside p when an odd number of vertical sides
\* of p pass to its left (or on its left border) at its height.
InsideCell(p, i, j) ==
  LET n == Len(p)
      crossing == { k \in 1..n :
                     LET a == p[k]
                         b == p[CycNext(k, n)]
                     IN a.x = b.x /\ a.x <= i
                        /\ Min(a.y, b.y) <= j /\ j + 1 <= Max(a.y, b.y) }
  IN Cardinality(crossing) % 2 = 1

\* The cell lies in the rectangle spanned by the two opposite corners of r.
RectCovers(r, i, j) ==
  /\ Min(r.left.x, r.right.x) <= i /\ i + 1 <= Max(r.left.x, r.right.x)
  /\ Min(r.left.y, r.right.y) <= j /\ j + 1 <= Max(r.left.y, r.right.y)

RectArea(r) ==
  (Max(r.left.x, r.right.x) - Min(r.left.x, r.right.x))
  * (Max(r.left.y, r.right.y) - Min(r.left.y, r.right.y))

RECURSIVE TotalArea(_, _)
TotalArea(rs, i) == IF i > Len(rs) THEN 0 ELSE RectArea(rs[i]) + TotalArea(rs, i + 1)

\* The union of rs is exactly the interior of p.
CoversExactly(rs, p) ==
  \A c \in Cells : InsideCell(p, c[1], c[2]) <=> \E k \in 1..Len(rs) : RectCovers(rs[k], c[1], c[2])

\* No two rectangles of rs share a cell.
NoOverlap(rs) ==
  \A k, m \in 1..Len(rs) :
    k < m => \A c \in Cells : ~(RectCovers(rs[k], c[1], c[2]) /\ RectCovers(rs[m], c[1], c[2]))

Pts(xy) == [i \in 1..Len(xy) |-> Point(xy[i][1], xy[i][2])]

\* The two orders of the L-shaped hexagon of main.rs.
LShapeCCW == Pts(<< <<0, 0>>, <<2, 0>>, <<2, 2>>, <<1, 2>>, <<1, 1>>, <<0, 1>> >>)
LShapeCW == Pts(<< <<0, 0>>, <<0, 1>>, <<1, 1>>, <<1, 2>>, <<2, 2>>, <<2, 0>> >>)

\* ---------------------------------------------------------------- claims
\* C1: for every simple rectilinear polygon given clockwise with more than 3
\* vertices, the rectangles returned by decompose cover exactly the interior
\* of the polygon and no two of them overlap in area.
C1_CoverageNoOverlap ==
  (pc = "done" /\ IsPolygon(points))
  => (result = "Ok" /\ CoversExactly(rects, points) /\ NoOverlap(rects))

\* C2 as stated: on (0,0),(2,0),(2,2),(1,2),(1,1),(0,1) decompose returns
\* exactly 2 rectangles whose union is the L-shape and whose areas sum to 3.
C2_TwoRectsOnFirstOrder ==
  (pc = "done" /\ points = LShapeCCW)
  => (result = "Ok" /\ Len(rects) = 2 /\ CoversExactly(rects, LShapeCCW)
      /\ TotalArea(rects, 1) = 3)

\* C2 amended: on (0,0),(2,0),(2,2),(1,2),(1,1),(0,1), the counter-clockwise
\* order, decompose returns Ok with an empty list of rectangles.
C2_NoRectsOnFirstOrder ==
  (pc = "done" /\ points = LShapeCCW) => (result = "Ok" /\ rects = <<>>)

C2_Witness == pc = "done" /\ points = LShapeCCW /\ iterations = 3

\* C3: on (0,0),(0,1),(1,1),(1,2),(2,2),(2,0) decompose returns rectangles
\* whose union is the L-shape of the other order, with total area 3 and no
\* overlap.
C3_SecondOrderCoversL ==
  (pc = "done" /\ points = LShapeCW)
  => (result = "Ok" /\ CoversExactly(rects, LShapeCCW)
      /\ TotalArea(rects, 1) = 3 /\ NoOverlap(rects))

\* The cyclic rotation of p that starts at its (k+1)-th vertex.
Rotate(p, k) == [i \in 1..Len(p) |-> p[((i - 1 + k) % Len(p)) + 1]]

\* C4: for a simple rectilinear polygon, decompose returns the same list of
\* rectangles (same corners, same order) for every cyclic rotation of the
\* input vertex list.
C4_RotationInvariant ==
  (pc = "done" /\ IsRectilinear(points) /\ IsSimple(points))
  => \A k \in 1..(Len(points) - 1) :
       LET other == Run(InitFrame(Rotate(points, k)))
       IN other.result = result /\ other.rects = rects

C4_Witness ==
  pc = "done" /\ IsPolygon(points) /\ Len(rects) >= 3 /\ points[1].y # points[2].y

GeometryErrors == {"IsAlreadySimple", "NotEnoughPoints"}

\* C5: Geometry::new (and so decompose) returns IsAlreadySimple for exactly 3
\* points and NotEnoughPoints for fewer than 3 points, and builds a Geometry
\* only for more than 3 points.
C5_GeometryNewErrors ==
  pc # "start"
  => IF Len(points) > 3
     THEN Len(geometry.nodes) >= Len(points) /\ result \notin GeometryErrors
     ELSE /\ pc = "done"
          /\ geometry = EmptyGeometry
          /\ result = (IF Len(points) = 3 THEN "IsAlreadySimple" ELSE "NotEnoughPoints")

C5_Witness == pc = "done" /\ Len(points) = 3 /\ result = "IsAlreadySimple"

\* C6: when Geometry::new fails, decompose returns that same error, with no
\* rectangle list and without executing any step of the sweep loop.
C6_ErrorPropagated ==
  Geometry_new_result(points) # "Ok"
  => /\ pc \in {"start", "done"}
     /\ pc = "done" => result = Geometry_new_result(points)
     /\ rects = <<>> /\ emitted_at = <<>> /\ iterations = 0
     /\ active_nodes.cursor = 0 /\ active_edges.edges = <<>>

C6_Witness == pc = "done" /\ Len(points) = 2 /\ result = "NotEnoughPoints"

\* C7: for every input point list decompose either returns an error or runs
\* to completion; no input makes it loop forever.
C7_Terminates == <>(pc = "done")

DistinctYs(p) == { p[i].y : i \in 1..Len(p) }

\* C8: no main-loop iteration starts with all active nodes consumed, every
\* iteration consumes at least one active node, the loop ends with the
\* iteration that exhausts ActiveNodes, and so it runs at most once per
\* distinct y of the input.
C8_LoopExhaustion ==
  /\ pc = "update" => active_nodes.cursor < Len(active_nodes.nodes)
  /\ pc \in {"scan_enter", "scan", "check"} => active_nodes.cursor > iter_start
  /\ (pc = "done" /\ result = "Ok") => active_nodes.cursor = Len(active_nodes.nodes)
  /\ (pc = "check" /\ active_nodes.cursor = Len(active_nodes.nodes))
       => Step(Frame).pc = "done"
  /\ iterations <= Cardinality(DistinctYs(points))

C8_Witness ==
  pc = "done" /\ result = "Ok" /\ iterations = 3
  /\ Cardinality(DistinctYs(points)) = 3

C10_SweepOrder ==
  (IsRectilinear(points) /\ IsSimple(points))
  => \A i, j \in 1..Len(rects) :
       i < j => /\ emitted_at[i] <= emitted_at[j]
                /\ emitted_at[i] = emitted_at[j] => rects[i].left.x <= rects[j].left.x

C10_Witness ==
  /\ pc = "done" /\ IsPolygon(points)
  /\ \E i, j \in 1..Len(rects) :
       i < j /\ emitted_at[i] = emitted_at[j] /\ rects[i].left.x < rects[j].left.x
  /\ \E i, j \in 1..Len(rects) : emitted_at[i] < emitted_at[j]

\* The active edges are non-decreasing in source x at every index.
SortedBySrcX(ae, g) ==
  \A i \in 1..(Len(ae.edges) - 1) :
    src_x(g, g.edges[ae.edges[i]]) <= src_x(g, g.edges[ae.edges[i + 1]])

\* C11: starting from an empty ActiveEdges, after any sequence of insert
\* calls (no cursor reset in between) the sequence is non-decreasing in
\* source x at every index.
C11_InsertKeepsSorted == SortedBySrcX(active_edges, geometry)

\* C12: every NodeId and EdgeId issued by the Geometry keeps resolving to the
\* item that was issued under it: ids are the positions of allocation, and
\* no later operation removes a node or an edge or changes the id under
\* which it is stored.
C12_IdsStable ==
  /\ \A i \in 1..Len(geometry.nodes) : geometry.nodes[i].id = i
  /\ \A i \in 1..Len(geometry.edges) : geometry.edges[i].id = i

\* The latest call of Geometry::split_edge, read from split_call and the
\* geometry it left: the edge as it was, the new node and the new edge.
SplitDone == split_call.edge_id # None
SplitOld == split_call.before.edges[split_call.edge_id]
SplitNewNode == Len(split_call.before.nodes) + 1
SplitNewEdge == Len(split_call.before.edges) + 1

\* The endpoints of the two resulting edges are the endpoints of the
\* original edge plus the new node.
SplitEndpoints ==
  LET e == geometry.edges[split_call.edge_id]
      n == geometry.edges[SplitNewEdge]
  IN {e.source, e.target, n.source, n.target}
       = {SplitOld.source, SplitOld.target, SplitNewNode}

\* C13 as stated: after split(e, s) the new node has exactly one of its two
\* edge slots set (outgoing for a Left split, incoming for a Right split),
\* and the endpoints of the two resulting edges are the original endpoints
\* plus the new node.
C13_NewNodeOneSlot ==
  SplitDone =>
    LET v == geometry.nodes[SplitNewNode]
    IN /\ SplitOld.side = "Left"
            => (v.out_edge = split_call.edge_id /\ v.inc_edge = None)
       /\ SplitOld.side = "Right"
            => (v.inc_edge = split_call.edge_id /\ v.out_edge = None)
       /\ SplitEndpoints

\* C13 amended: after split(e, s) the new node has both edge slots set: the
\* slot complementary to the rewired endpoint (outgoing for Left, incoming
\* for Right) holds e and the other slot holds the newly created edge; the
\* endpoints of the two resulting edges are the original endpoints plus the
\* new node.
C13_NewNodeBothSlots ==
  SplitDone =>
    LET v == geometry.nodes[SplitNewNode]
    IN /\ SplitOld.side = "Left"
            => (v.out_edge = split_call.edge_id /\ v.inc_edge = SplitNewEdge)
       /\ SplitOld.side = "Right"
            => (v.inc_edge = split_call.edge_id /\ v.out_edge = SplitNewEdge)
       /\ SplitEndpoints

C13_Witness ==
  /\ SplitDone /\ SplitOld.side = "Left"
  /\ geometry.nodes[SplitNewNode].inc_edge = SplitNewEdge
  /\ geometry.nodes[SplitNewNode].out_edge = split_call.edge_id

\* C14: the Point order is total with y dominant and x tie-breaking: of
\* p < q, p == q, p > q exactly one holds, p < q iff p.y < q.y or (p.y = q.y
\* and p.x < q.x), p == q iff both coordinates are equal; ActiveNodes.sort
\* orders the node ids by this order.
C14_PointOrder ==
  /\ \A i, j \in 1..Len(points) :
       LET p == points[i]
           q == points[j]
       IN /\ PointCmp(p, q) = "Less"
               <=> (p.y < q.y \/ (p.y = q.y /\ p.x < q.x))
          /\ PointCmp(p, q) = "Equal" <=> PointEq(p, q)
          /\ PointEq(p, q) <=> (p.x = q.x /\ p.y = q.y)
          /\ PointCmp(p, q) = "Greater" <=> PointCmp(q, p) = "Less"
  /\ \A i, j \in 1..Len(active_nodes.nodes) :
       i < j => PointCmp(geometry.nodes[active_nodes.nodes[i]].point,
                         geometry.nodes[active_nodes.nodes[j]].point)
                  # "Greater"
  /\ pc \in {"update", "purge", "add", "scan_enter", "scan", "check"}
       => /\ Len(active_nodes.nodes) = Len(points)
          /\ {active_nodes.nodes[i] : i \in 1..Len(active_nodes.nodes)}
               = 1..Len(points)

C14_Witness ==
  /\ pc = "update" /\ Len(active_nodes.nodes) = Len(points)
  /\ \E i, j \in 1..Len(points) : i # j /\ PointEq(points[i], points[j])
  /\ \E i, j \in 1..Len(points) :
       points[i].y = points[j].y /\ points[i].x < points[j].x
  /\ active_nodes.nodes # [i \in 1..Len(points) |-> i]

\* C15: split(e, s) rewires as follows.  Left edge: a new node v at
\* (source.x, s), e's source becomes v, v's outgoing slot is e, a new Left
\* edge old_source -> v is created.  Right edge: v at (target.x, s), e's
\* target becomes v, v's incoming slot is e, a new Right edge v -> old_target
\* is created.  Afterwards the old endpoint's slot that pointed at e points
\* at the new edge, e keeps its other endpoint and wall kind, and no other
\* node or edge is changed.
C15_SplitRewiring ==
  SplitDone =>
    LET b == split_call.before
        e == split_call.edge_id
        old == SplitOld
        v == SplitNewNode
        n == SplitNewEdge
        left == old.side = "Left"
        u == IF left THEN old.source ELSE old.target
    IN /\ Len(geometry.nodes) = Len(b.nodes) + 1
       /\ Len(geometry.edges) = Len(b.edges) + 1
       /\ geometry.nodes[v].id = v
       /\ geometry.nodes[v].point = Point(b.nodes[u].point.x, split_call.scanline)
       /\ left => /\ geometry.edges[e]
                       = [id |-> e, source |-> v, target |-> old.target,
                          side |-> "Left"]
                  /\ geometry.nodes[v].out_edge = e
                  /\ geometry.edges[n]
                       = [id |-> n, source |-> u, target |-> v, side |-> "Left"]
                  /\ b.nodes[u].out_edge = e
                  /\ geometry.nodes[u] = [b.nodes[u] EXCEPT !.out_edge = n]
       /\ ~left => /\ geometry.edges[e]
                        = [id |-> e, source |-> old.source, target |-> v,
                           side |-> "Right"]
                   /\ geometry.nodes[v].inc_edge = e
                   /\ geometry.edges[n]
                        = [id |-> n, source |-> v, target |-> u, side |-> "Right"]
                   /\ b.nodes[u].inc_edge = e
                   /\ geometry.nodes[u] = [b.nodes[u] EXCEPT !.inc_edge = n]
       /\ \A i \in 1..Len(b.nodes) : i # u => geometry.nodes[i] = b.nodes[i]
       /\ \A j \in 1..Len(b.edges) : j # e => geometry.edges[j] = b.edges[j]

C15_Witness ==
  /\ SplitDone /\ SplitOld.side = "Right"
  /\ geometry.edges[split_call.edge_id].target = SplitNewNode
  /\ geometry.nodes[SplitOld.target].inc_edge = SplitNewEdge
  /\ Len(split_call.before.nodes) > Len(points)

\* C16 as stated: the value returned by split(edge_id, s) is the mutated
\* original edge: it carries the id edge_id and its replaced endpoint is the
\* new node; it is not the newly allocated edge.
C16_ReturnsMutatedOriginal ==
  SplitDone =>
    /\ split_call.returned = geometry.edges[split_call.edge_id]
    /\ split_call.returned.id = split_call.edge_id
    /\ split_call.returned.id # SplitNewEdge

\* C16 amended: the value returned by split(edge_id, s) is the newly
\* allocated edge: it carries a fresh id, joins the old endpoint and the new
\* node (old_source -> new node for Left, new node -> old_target for Right)
\* and has the wall kind of the original; it is not the original edge.
C16_ReturnsNewEdge ==
  SplitDone =>
    /\ split_call.returned = geometry.edges[SplitNewEdge]
    /\ split_call.returned.id = SplitNewEdge
    /\ split_call.returned.id # split_call.edge_id
    /\ split_call.returned.side = SplitOld.side
    /\ SplitOld.side = "Left"
         => (split_call.returned.source = SplitOld.source
             /\ split_call.returned.target = SplitNewNode)
    /\ SplitOld.side = "Right"
         => (split_call.returned.source = SplitNewNode
             /\ split_call.returned.target = SplitOld.target)

C16_Witness ==
  /\ SplitDone
  /\ split_call.returned.id = Len(geometry.edges)
  /\ split_call.returned.id > split_call.edge_id

\* The latest step of scan_and_split was its third phase.
SplitEmitted == pc = "sfe" /\ scan_log.out = "NewRect"

\* C17: in the split-and-emit phase every candidate that strictly contains
\* the scanline is split at the scanline and replaced by the resulting edge
\* (both candidates when both strictly contain it, before the rectangle is
\* emitted); a candidate with an endpoint on the scanline is never split.
C17_EveryStrictCandidateSplit ==
  SplitEmitted =>
    LET b == scan_log.before
        lstrict == scanline_strictly_inside(geometry, b.le, scanline)
        rstrict == scanline_strictly_inside(geometry, b.re, scanline)
    IN /\ lstrict => /\ self_scans.le.id > scan_log.n_edges
                     /\ \E n \in {geometry.edges[b.le.id].source,
                                   geometry.edges[b.le.id].target} :
                          /\ n > scan_log.n_nodes
                          /\ geometry.nodes[n].point.y = scanline
       /\ rstrict => /\ self_scans.re.id > scan_log.n_edges
                     /\ \E n \in {geometry.edges[b.re.id].source,
                                   geometry.edges[b.re.id].target} :
                          /\ n > scan_log.n_nodes
                          /\ geometry.nodes[n].point.y = scanline
       /\ ~lstrict => self_scans.le = b.le
       /\ ~rstrict => self_scans.re = b.re
       /\ Len(geometry.nodes) = scan_log.n_nodes
            + (IF lstrict THEN 1 ELSE 0) + (IF rstrict THEN 1 ELSE 0)

\* C18: a scan-and-split step that reaches its third phase emits exactly one
\* rectangle Rect(p, q), p the point of the source node of the left candidate
\* and q the point of the source node of the right candidate, both read after
\* the splits of that step.
C18_RectOfSourcePoints ==
  SplitEmitted =>
    /\ Len(rects) = scan_log.n_rects + 1
    /\ rects[Len(rects)] =
         Rect(geometry.nodes[self_scans.le.source].point,
              geometry.nodes[self_scans.re.source].point)

C18_Witness ==
  /\ SplitEmitted
  /\ Len(geometry.nodes) > scan_log.n_nodes
  /\ rects[Len(rects)].left # rects[Len(rects)].right
  /\ rects[Len(rects)].left = geometry.nodes[self_scans.le.source].point

\* The latest step of scan_and_split was check_both_splittable.
CheckedSplittable == pc = "split" \/ (pc = "sfe" /\ scan_log.out = "ContinueLoop")

\* C19: in check_both_splittable, when both candidates strictly contain the
\* scanline and the recorded left cursor advanced by one equals the recorded
\* right cursor, the step emits no rectangle and performs no split and
\* pairing restarts from phase 1 at the current active-edges cursor; when
\* both strictly contain it and the cursors differ, the edge at the advanced
\* left-cursor index (if one exists) becomes the left candidate; when at most
\* one candidate strictly contains the scanline the candidates are unchanged.
C19_CheckBothSplittable ==
  CheckedSplittable =>
    LET b == scan_log.before
        both == /\ scanline_strictly_inside(geometry, b.le, scanline)
                /\ scanline_strictly_inside(geometry, b.re, scanline)
        adv == IF b.lc = None THEN None ELSE b.lc + 1
        id == peek_at(active_edges.edges, adv)
    IN /\ (both /\ adv = b.rc) =>
            /\ scan_log.out = "ContinueLoop"
            /\ pc = "sfe"
            /\ scans = self_scans
            /\ Len(rects) = scan_log.n_rects
            /\ Len(geometry.nodes) = scan_log.n_nodes
            /\ Len(geometry.edges) = scan_log.n_edges
            /\ active_edges.cursor = scan_log.cursor
       /\ (both /\ adv # b.rc) =>
            /\ pc = "split"
            /\ self_scans.le = IF id # None THEN geometry.edges[id] ELSE b.le
            /\ self_scans.re = b.re
       /\ ~both =>
            /\ pc = "split"
            /\ self_scans = b

C19_Witness ==
  /\ CheckedSplittable
  /\ scan_log.out = "ContinueLoop"
  /\ scan_log.before.lc + 1 = scan_log.before.rc
  /\ scanline_strictly_inside(geometry, scan_log.before.le, scanline)
  /\ scanline_strictly_inside(geometry, scan_log.before.re, scanline)
  /\ active_edges.cursor < Len(active_edges.edges)

\* The latest step of scan_and_split was scan_for_edges.
ScannedForEdges == pc = "cbs" \/ (pc = "check" /\ scan_log.out = "ReturnRects")

C21_InsertPosition ==
  [][ActiveEdgesInsert =>
       \E id \in 1..Len(geometry.edges) :
         LET es == active_edges.edges
             x == src_x(geometry, geometry.edges[id])
             G == { i \in active_edges.cursor..(Len(es) - 1) :
                      src_x(geometry, geometry.edges[es[i + 1]]) > x }
             pos == IF G = {} THEN Len(es)
                    ELSE CHOOSE i \in G : \A j \in G : i <= j
         IN /\ active_edges'.edges = InsertAt(es, pos, id)
            /\ Len(active_edges'.edges) = Len(es) + 1]_vars

\* After three inserts: two different edges of equal source x, then an edge
\* of greater source x, the cursor where the latest insert left it.
C21_Witness ==
  /\ pc = "new"
  /\ Len(active_edges.edges) = 3
  /\ active_edges.edges[1] # active_edges.edges[2]
  /\ src_x(geometry, geometry.edges[active_edges.edges[1]])
       = src_x(geometry, geometry.edges[active_edges.edges[2]])
  /\ src_x(geometry, geometry.edges[active_edges.edges[2]])
       < src_x(geometry, geometry.edges[active_edges.edges[3]])
  /\ active_edges.cursor = 2

\* The loop of add_active_edges leaves ActiveEdges sorted after each of its
\* inserts (incoming edge, then outgoing edge, of each consumed node).
RECURSIVE InsertsKeepSorted(_, _, _, _)
InsertsKeepSorted(an, ae, g, sl) ==
  LET id == peek_at(an.nodes, an.cursor)
      ae1 == maybe_insert(ae, g, g.nodes[id].inc_edge)
      ae2 == maybe_insert(ae1, g, g.nodes[id].out_edge)
  IN IF id # None /\ on_scanline(g, id, sl)
     THEN /\ SortedBySrcX(ae1, g)
          /\ SortedBySrcX(ae2, g)
          /\ InsertsKeepSorted([an EXCEPT !.cursor = @ + 1], ae2, g, sl)
     ELSE TRUE

\* C22: at every point of a decompose run on a simple rectilinear polygon
\* (after every insert of the insert step, after every purge, and after
\* every split of the scan phase) ActiveEdges is sorted in non-decreasing
\* source x.
C22_ActiveEdgesSorted ==
  (IsRectilinear(points) /\ IsSimple(points)) =>
    /\ SortedBySrcX(active_edges, geometry)
    /\ pc = "add" =>
         InsertsKeepSorted(active_nodes, [active_edges EXCEPT !.cursor = 0],
                           geometry, scanline)

\* In the scan phase of a later scanline, after a split, with three or more
\* active edges.
C22_Witness ==
  /\ IsRectilinear(points) /\ IsSimple(points)
  /\ pc = "scan"
  /\ iterations >= 2
  /\ Len(geometry.nodes) > Len(points)
  /\ Len(active_edges.edges) >= 3
  /\ \E i \in 1..(Len(active_edges.edges) - 1) :
       src_x(geometry, geometry.edges[active_edges.edges[i]])
         < src_x(geometry, geometry.edges[active_edges.edges[i + 1]])

\* C23: the purge at scanline s removes exactly the active edges whose
\* y-interval does not contain s (min_y <= s <= max_y keeps the edge), and
\* from the end of the insert step through the whole scan phase of that
\* iteration, splits included, every edge in ActiveEdges contains the
\* current scanline non-strictly.
C23_PurgeAndContainment ==
  /\ [][PurgeActiveEdges =>
          active_edges'.edges =
            SelectSeq(active_edges.edges,
                      LAMBDA id : /\ min_y(geometry, geometry.edges[id]) <= scanline
                                  /\ scanline <= max_y(geometry, geometry.edges[id]))]_vars
  /\ [](pc \in {"scan_enter", "scan", "check"} =>
          \A i \in 1..Len(active_edges.edges) :
            LET e == geometry.edges[active_edges.edges[i]]
            IN min_y(geometry, e) <= scanline /\ scanline <= max_y(geometry, e))

\* C24: in the insert step at scanline s exactly the ActiveNodes entries with
\* y == s are consumed: the active-nodes cursor stops at the first node whose
\* y differs from s (or at the end) without consuming it, and for each
\* consumed node its incoming edge id and then its outgoing edge id, when
\* present, is inserted into ActiveEdges.
C24_InsertStep ==
  [][AddActiveEdges =>
       LET ns == active_nodes.nodes
           c == active_nodes.cursor
           c1 == active_nodes'.cursor
           es == active_edges.edges
           es1 == active_edges'.edges
           y(i) == geometry.nodes[ns[i + 1]].point.y
           consumed == { ns[i + 1] : i \in c..(c1 - 1) }
           Count(q, k) == Cardinality({ i \in 1..Len(q) : q[i] = k })
       IN /\ active_nodes'.nodes = ns
          /\ c <= c1 /\ c1 <= Len(ns)
          /\ \A i \in c..(c1 - 1) : y(i) = scanline
          /\ c1 < Len(ns) => y(c1) # scanline
          /\ \A k \in 1..Len(geometry.edges) :
               Count(es1, k) = Count(es, k)
                 + Cardinality({ n \in consumed : geometry.nodes[n].inc_edge = k })
                 + Cardinality({ n \in consumed : geometry.nodes[n].out_edge = k })
          /\ \A n \in consumed :
               (/\ geometry.nodes[n].inc_edge # None
                /\ geometry.nodes[n].out_edge # None
                /\ src_x(geometry, geometry.edges[geometry.nodes[n].inc_edge])
                     = src_x(geometry, geometry.edges[geometry.nodes[n].out_edge]))
               => \E i, j \in 1..Len(es1) :
                    /\ i < j
                    /\ es1[i] = geometry.nodes[n].inc_edge
                    /\ es1[j] = geometry.nodes[n].out_edge]_vars

\* After the insert step of a later scanline that consumed two or more nodes
\* and stopped in front of a node of a higher scanline.
C24_Witness ==
  /\ pc = "scan_enter"
  /\ iterations >= 2
  /\ active_nodes.cursor >= iter_start + 2
  /\ active_nodes.cursor < Len(active_nodes.nodes)
  /\ geometry.nodes[active_nodes.nodes[active_nodes.cursor + 1]].point.y > scanline
  /\ Len(active_edges.edges) >= 2

\* C25: after the initial sort the ActiveNodes sequence is never changed for
\* the rest of decompose (nodes created by split are not added to it), its
\* cursor never decreases, and every initial boundary node is consumed
\* exactly once, in Point order.
C25_ActiveNodesFixed ==
  /\ [][pc \notin {"start", "walk", "new"} =>
          /\ active_nodes'.nodes = active_nodes.nodes
          /\ active_nodes'.cursor >= active_nodes.cursor]_vars
  /\ [](pc \notin {"start", "walk", "new"} /\ result \in {"pending", "Ok"} =>
          /\ Len(active_nodes.nodes) = Len(points)
          /\ \A n \in 1..Len(points) :
               Cardinality({ i \in 1..Len(points) : active_nodes.nodes[i] = n }) = 1
          /\ \A i \in 1..(Len(points) - 1) :
               PointCmp(geometry.nodes[active_nodes.nodes[i]].point,
                        geometry.nodes[active_nodes.nodes[i + 1]].point) # "Greater"
          /\ active_nodes.cursor <= Len(points)
          /\ (pc = "done" /\ result = "Ok") => active_nodes.cursor = Len(points))

\* decompose returned Ok after three or more scanlines and a split: the
\* geometry has more nodes than ActiveNodes, all of which were consumed.
C25_Witness ==
  /\ pc = "done" /\ result = "Ok"
  /\ iterations >= 3
  /\ Len(geometry.nodes) > Len(active_nodes.nodes)
  /\ active_nodes.cursor = Len(active_nodes.nodes)
  /\ Len(active_nodes.nodes) = Len(points)

\* C26: the scanline value strictly increases from each main-loop iteration
\* of decompose to the next.
C26_ScanlineIncreases ==
  [][(UpdateScanline /\ iterations >= 1 /\ pc' = "purge") =>
       scanline' > scanline]_vars

\* The third main-loop iteration has taken its scanline, two above the first.
C26_Witness ==
  /\ pc = "purge"
  /\ iterations = 3
  /\ scanline = 2
  /\ geometry.nodes[active_nodes.nodes[1]].point.y = 0

\* C27: for every input of more than 3 points, at the start of every
\* main-loop iteration of decompose ActiveNodes has a node at its cursor
\* (cursor < length), so the scanline update always succeeds: the
\* FailedScanlineUpdate condition (and the unwrap in update_scanline) is
\* unreachable.
C27_ScanlineUpdateSucceeds ==
  Len(points) > 3 =>
    /\ pc = "update" =>
         /\ active_nodes.cursor < Len(active_nodes.nodes)
         /\ ActiveNodes_scanline(active_nodes, geometry).found
    /\ result \notin {"panic", "FailedScanlineUpdate"}

\* The start of a later main-loop iteration, some nodes consumed and some
\* left.
C27_Witness ==
  /\ Len(points) > 3
  /\ pc = "update"
  /\ iterations >= 2
  /\ active_nodes.cursor > 0
  /\ active_nodes.cursor < Len(active_nodes.nodes)

\* C28: every scan-and-split step started with the active-edges cursor
\* before the end finishes with the cursor strictly larger and with the
\* ActiveEdges length unchanged, whichever result it produces (rectangle,
\* restart of pairing, or terminate); hence the scan phase of each scanline
\* ends after at most len(ActiveEdges) steps.
\* (The cursor moves in the first phase only; the last conjunct is the same
\* statement for one iteration of the loop of Decomposer::scan_edges.)
C28_ScanStepAdvances ==
  /\ [][ScanForEdges =>
          /\ active_edges'.edges = active_edges.edges
          /\ active_edges'.cursor <= Len(active_edges.edges)
          /\ active_edges.cursor < Len(active_edges.edges)
               => active_edges'.cursor > active_edges.cursor
          /\ active_edges.cursor = Len(active_edges.edges)
               => scan_log'.out = "ReturnRects"]_vars
  /\ [][(CheckBothSplittable \/ SplitAndEmit) => active_edges' = active_edges]_vars
  /\ [][(ScanEdgesStep /\ active_edges.cursor < Len(active_edges.edges)) =>
          /\ active_edges'.edges = active_edges.edges
          /\ active_edges'.cursor > active_edges.cursor
          /\ active_edges'.cursor <= Len(active_edges.edges)]_vars

\* A second or later step on the same active list has ended with a rectangle
\* or a restart, the cursor further on.
C28_Witness ==
  /\ pc = "sfe"
  /\ scan_log.out \in {"NewRect", "ContinueLoop"}
  /\ scan_log.c0 > 0
  /\ active_edges.cursor > scan_log.c0
  /\ active_edges.cursor <= Len(active_edges.edges)

\* C29: in every decompose run on an input of more than 3 points
\* (Geometry::new and every split), set_incoming/set_outgoing is only ever
\* called on an empty slot: whenever new_edge(source, target) executes,
\* source has no outgoing edge and target has no incoming edge, so the
\* occupied-slot assertions in Node never fire.
C29_SlotsEmptyWhenSet == Len(points) > 3 => ~geometry.slot_overwritten

\* decompose returned after Geometry::new created edges and the scan phase
\* split two or more of them.
C29_Witness ==
  /\ pc = "done" /\ result = "Ok"
  /\ Len(geometry.nodes) >= Len(points) + 2
  /\ Len(geometry.edges) >= 4
  /\ ~geometry.slot_overwritten

\* C30: for an input of more than 3 points in which at least one cyclically
\* consecutive pair differs in y, Geometry::new creates exactly one node per
\* input point, in input order, and exactly one edge for each cyclically
\* consecutive pair (p_i, p_(i+1 mod n)) whose y values differ, the
\* wrap-around pair (last, first) included, with source p_i and target
\* p_(i+1); pairs with equal y get no edge and no pair gets two edges.
C30_OneEdgePerVerticalPair ==
  (pc = "new" /\ Len(points) > 3
   /\ \E i \in 1..Len(points) : points[i].y # points[CycNext(i, Len(points))].y)
  => LET n == Len(points)
         es == geometry.edges
         of_pair(i) == { k \in 1..Len(es) :
                           es[k].source = i /\ es[k].target = CycNext(i, n) }
     IN /\ Len(geometry.nodes) = n
        /\ \A i \in 1..n : geometry.nodes[i].point = points[i]
        /\ \A i \in 1..n :
             Cardinality(of_pair(i)) =
               IF points[i].y # points[CycNext(i, n)].y THEN 1 ELSE 0
        /\ \A k \in 1..Len(es) : k \in of_pair(es[k].source)

\* Geometry::new has returned for an input whose first pair has equal y (the
\* walk passes index 0 a second time), whose wrap-around pair differs in y
\* and has its edge.
C30_Witness ==
  /\ pc = "new" /\ Len(points) > 4
  /\ points[1].y = points[2].y
  /\ points[Len(points)].y # points[1].y
  /\ \E k \in 1..Len(geometry.edges) :
       geometry.edges[k].source = Len(points) /\ geometry.edges[k].target = 1
  /\ Len(geometry.edges) >= 3

\* C31: every edge stored in the Geometry, when created by Geometry::new
\* and after any sequence of splits performed by decompose, is tagged Left
\* exactly when its source y is smaller than its target y and Right exactly
\* when its source y is larger; no stored edge has source y equal to target y.
C31_TagMatchesDirection ==
  \A k \in 1..Len(geometry.edges) :
    LET e == geometry.edges[k]
    IN /\ (e.side = "Left") <=> (src_y(geometry, e) < tgt_y(geometry, e))
       /\ (e.side = "Right") <=> (src_y(geometry, e) > tgt_y(geometry, e))
       /\ src_y(geometry, e) # tgt_y(geometry, e)

\* decompose returned after splitting a Left edge and a Right edge: the
\* Geometry holds an edge of each tag with a node created by a split as one
\* endpoint.
C31_Witness ==
  /\ pc = "done" /\ result = "Ok"
  /\ \E k, m \in 1..Len(geometry.edges) :
       /\ geometry.edges[k].side = "Left" /\ geometry.edges[m].side = "Right"
       /\ geometry.edges[k].target > Len(points)
       /\ geometry.edges[m].source > Len(points)

\* C32: during decompose no traversal operation on ActiveNodes or
\* ActiveEdges (peek, next, next_if, insert, finished) is performed while the
\* cursor is greater than the sequence length; the active-edges cursor left
\* over from the previous scanline is reset to 0 after the purge and before
\* the purged list is traversed again.  The only state with a cursor past
\* the end is the one between the purge and add_active_edges, whose first
\* statement is the reset.
C32_CursorWithinLength ==
  /\ [](/\ active_nodes.cursor <= Len(active_nodes.nodes)
        /\ (pc # "add" => active_edges.cursor <= Len(active_edges.edges)))
  /\ [][AddActiveEdges =>
          /\ active_edges' =
               add_loop(active_nodes, [active_edges EXCEPT !.cursor = 0],
                        geometry, scanline).active_edges
          /\ active_edges'.cursor <= Len(active_edges'.edges)]_vars

\* The purge has shortened the list below the cursor left by the scan of
\* the previous scanline.
C32_Witness ==
  /\ pc = "add" /\ iterations >= 2
  /\ active_edges.edges # <<>>
  /\ active_edges.cursor > Len(active_edges.edges)

\* C33: next_if(predicate) returns the item at the cursor and advances the
\* cursor by exactly one only if an item exists at the cursor and the
\* predicate holds for it; otherwise it returns nothing and leaves the
\* cursor and the sequence unchanged.  peek and peek_at never change the
\* cursor or the sequence.
C33_NextIfAndPeek ==
  /\ [][CallNextIf =>
          LET n == Len(active_nodes.nodes)
              c == active_nodes.cursor
              holds == c < n
                       /\ geometry.nodes[active_nodes.nodes[c + 1]].point.y
                          = vec_call'.arg
          IN /\ active_nodes'.nodes = active_nodes.nodes
             /\ holds => /\ vec_call'.returned = active_nodes.nodes[c + 1]
                         /\ active_nodes'.cursor = c + 1
             /\ ~holds => /\ vec_call'.returned = None
                          /\ active_nodes'.cursor = c]_vars
  /\ [][(CallPeek \/ CallPeekAt) =>
          /\ active_nodes' = active_nodes
          /\ vec_call'.returned =
               IF vec_call'.arg < Len(active_nodes.nodes)
               THEN active_nodes.nodes[vec_call'.arg + 1] ELSE None]_vars

\* next_if has consumed at least one node and has just refused the node at
\* the cursor, whose y is not the one the predicate asks for.
C33_Witness ==
  /\ vec_call.op = "next_if" /\ vec_call.returned = None
  /\ active_nodes.cursor >= 1
  /\ active_nodes.cursor < Len(active_nodes.nodes)
  /\ active_nodes = vec_call.before
  /\ geometry.nodes[active_nodes.nodes[active_nodes.cursor + 1]].point.y
     # vec_call.arg

\* C34: after Geometry::new and after every split performed during
\* decompose, the node and edge arenas are mutually consistent: for every
\* edge e, the id stored inside e is the id e is stored under, the source
\* node's outgoing slot is e and the target node's incoming slot is e; and
\* every non-empty node slot names an edge that has that node as the
\* matching endpoint.
C34_ArenasConsistent ==
  (pc \notin {"start", "walk"} /\ result \in {"pending", "Ok"})
  => LET es == geometry.edges
         ns == geometry.nodes
     IN /\ \A k \in 1..Len(es) :
             /\ es[k].id = k
             /\ ns[es[k].source].out_edge = k
             /\ ns[es[k].target].inc_edge = k
        /\ \A i \in 1..Len(ns) :
             /\ ns[i].out_edge # None => es[ns[i].out_edge].source = i
             /\ ns[i].inc_edge # None => es[ns[i].inc_edge].target = i

\* C35: at no point of a decompose run does ActiveEdges contain the same
\* edge id at two positions: an edge that was inserted at the scanline of
\* one endpoint and is still retained is not inserted a second time when
\* the node at its other endpoint is consumed.
C35_NoDuplicateActiveEdge ==
  \A i, j \in 1..Len(active_edges.edges) :
    i # j => active_edges.edges[i] # active_edges.edges[j]

\* C36: whenever a step splits a candidate or emits a rectangle, the left
\* candidate is an edge tagged Left and the right candidate is an edge
\* tagged Right that lies after the left candidate in ActiveEdges; a step
\* in which no qualifying Right edge is found after the left candidate, or
\* in which the left candidate was re-adopted from the advanced left cursor,
\* never emits a rectangle built from an edge of the wrong kind.  Stated on
\* the state in which scan_and_split enters its third phase, which splits
\* and emits.
C36_CandidateKinds ==
  pc = "split" =>
    LET es == active_edges.edges
    IN /\ self_scans.le.side = "Left"
       /\ self_scans.re.side = "Right"
       /\ self_scans.rc # None
       /\ \E i, j \in 1..Len(es) :
            /\ i < j /\ j = self_scans.rc
            /\ geometry.edges[es[i]] = self_scans.le
            /\ geometry.edges[es[j]] = self_scans.re

\* C37: every rectangle emitted by decompose on a simple rectilinear
\* polygon is non-degenerate and consistently oriented: its first corner is
\* strictly smaller than its second corner in both x and y, and the y of
\* its second corner equals the scanline of the step that emitted it.
C37_RectsWellFormed ==
  (IsRectilinear(points) /\ IsSimple(points))
  => \A k \in 1..Len(rects) :
       /\ rects[k].left.x < rects[k].right.x
       /\ rects[k].left.y < rects[k].right.y
       /\ rects[k].right.y = emitted_at[k]

\* C38: a split performed during the scan phase changes only the Geometry
\* arenas: it adds exactly one node and exactly one edge and leaves the
\* ActiveEdges sequence, the ActiveEdges cursor, the ActiveNodes sequence and
\* the ActiveNodes cursor unchanged (the new edge and the new node are not
\* made active by the split).  A step of scan_edges scans for the two
\* candidates and then splits those that strictly contain the scanline:
\* the cursor after the step is the one the scan left.
C38_SplitFrame ==
  [][(ScanEdgesStep /\ geometry' # geometry) =>
       LET l == scan_for_edge_on_side(active_edges, geometry, "Left", scanline)
           r == scan_for_edge_on_side(l.active_edges, geometry, "Right", scanline)
           left == IF scanline_strictly_inside(geometry, l.edge, scanline)
                      /\ scanline_strictly_inside(geometry, r.edge, scanline)
                   THEN geometry.edges[peek_at(active_edges.edges, l.cursor + 1)]
                   ELSE l.edge
           n_splits ==
             (IF scanline_strictly_inside(geometry, left, scanline) THEN 1 ELSE 0)
             + (IF scanline_strictly_inside(geometry, r.edge, scanline) THEN 1 ELSE 0)
       IN /\ n_splits >= 1
          /\ Len(geometry'.nodes) = Len(geometry.nodes) + n_splits
          /\ Len(geometry'.edges) = Len(geometry.edges) + n_splits
          /\ \A i \in 1..Len(geometry.nodes) :
               geometry'.nodes[i].point = geometry.nodes[i].point
          /\ active_nodes' = active_nodes
          /\ active_edges'.edges = active_edges.edges
          /\ active_edges'.cursor = r.cursor
          /\ \A k \in 1..Len(active_edges'.edges) :
               active_edges'.edges[k] <= Len(geometry.edges)
          /\ \A k \in 1..Len(active_nodes'.nodes) :
               active_nodes'.nodes[k] <= Len(geometry.nodes)]_vars

\* A step of the scan phase has just split a candidate and the scan of
\* this scanline is not over: edges stand after the cursor.
C38_Witness ==
  /\ pc = "scan" /\ rects # <<>>
  /\ emitted_at[Len(emitted_at)] = scanline
  /\ Len(geometry.nodes) > Len(points)
  /\ geometry.nodes[Len(geometry.nodes)].point.y = scanline
  /\ active_edges.cursor >= 2
  /\ active_edges.cursor < Len(active_edges.edges)

====
